---------------------------- MODULE Spec2Model ----------------------------
(***************************************************************************)
(* astrometry_wrapper: commands.solve_field (behind the                    *)
(* _check_installation decorator) and wrappers.solve, as a state machine   *)
(* over a small file system: the directories of $PATH, the temporary       *)
(* directory holding the working directories (with the <root>.solved file  *)
(* of each) and the temporary output files.                                *)
(*                                                                         *)
(* Each caller runs one invocation, one source-level step at a time, so    *)
(* that two invocations interleave the way two threads or processes do.    *)
(* Spec has one caller and every input; SpecPair has two callers.          *)
(* What the interpreter, the operating system and the external solve-field *)
(* binary decide (which random name tempfile draws, whether a call raises, *)
(* what solve-field writes and how it exits) is a nondeterministic choice. *)
(***************************************************************************)
EXTENDS Integers, Sequences, FiniteSets, TLC

(* ------------------------------ bounds -------------------------------- *)

\* number of callers that may invoke concurrently
NProcs == 2
\* number of random names tempfile can draw for one prefix and suffix
MaxNames == 2
\* number of directories listed in $PATH
PathLen == 2
\* longest <root>.solved file solve-field writes, in bytes
MaxLen == 2

Procs == 1..NProcs
Rnd == {ToString(i) : i \in 1..MaxNames}

\* the byte values solve-field writes to <root>.solved: the binary one the
\* code looks for, and another
Bytes == {0, 1}

\* the exit statuses of solve-field: success, and a failure
ExitCodes == {0, 1}

(* --------------------------- program constants ------------------------ *)

ASTROMETRY_COMMAND == "solve-field"

\* the Python major versions the module supports (its __future__ imports)
PyVersions == {2, 3}

\* what a directory of $PATH holds under the name solve-field
EntryKinds == {"none", "file", "exec"}

\* the input paths of the callers, already split as os.path.basename and
\* os.path.splitext split them
Inputs ==
  { [dir |-> "img/", root |-> "a", ext |-> ".fits"],
    [dir |-> "", root |-> "b", ext |-> ""] }

PathStr(path) == path.dir \o path.root \o path.ext
Root(path) == path.root
Ext(path) == path.ext

\* keyword arguments: a value is None, an int or a string
None == [t |-> "none"]
IntVal(i) == [t |-> "int", i |-> i]
Text(s) == [t |-> "str", s |-> s]

\* str(value)
Str(value) ==
  CASE value.t = "none" -> "None"
    [] value.t = "int" -> ToString(value.i)
    [] value.t = "str" -> value.s

\* the option maps callers of solve_field pass, in iteration order
DirectOptions ==
  { << >>,
    << [key |-> "w", value |-> IntVal(681)] >>,
    << [key |-> "no-plots", value |-> None] >>,
    << [key |-> "z", value |-> None], [key |-> "new-fits", value |-> Text("/tmp/mine.fits")] >> }

(* ------------------------------ the state ----------------------------- *)

VARIABLES
  py,          \* the interpreter's major version
  PATH,        \* PATH[i]: what directory i of $PATH holds as solve-field
  workspaces,  \* existing working directories -> content of <root>.solved
  files,       \* existing files of the temporary directory (outside any working directory)
  frame        \* frame[p]: the locals and the position of caller p, for
               \* the callers there are

vars == << py, PATH, workspaces, files, frame >>

\* no <root>.solved file in the directory
NoFile == << -1 >>

SentinelContents == UNION { [1..n -> Bytes] : n \in 0..MaxLen }

NoOutcome == [kind |-> "none"]
Return(value) == [kind |-> "return", value |-> value]
CalledProcessError(returncode, cmd) ==
  [kind |-> "CalledProcessError", returncode |-> returncode, cmd |-> cmd]
AstrometryNetUnsolvedField(path) ==
  [kind |-> "AstrometryNetUnsolvedField", path |-> path]
OSError(origin) == [kind |-> "OSError", origin |-> origin]
IOError(origin) == [kind |-> "IOError", origin |-> origin]
TypeError(origin) == [kind |-> "TypeError", origin |-> origin]
\* print(ASTROMETRY_MISSING); sys.exit(1)
ToolNotInstalled == [kind |-> "SystemExit", code |-> 1, printed |-> "ASTROMETRY_MISSING"]

InitFrame ==
  [ pc |-> "idle", via |-> "", path |-> [dir |-> "", root |-> "", ext |-> ""],
    options |-> << >>, s_output_path |-> "",
    output_dir |-> "", output_path |-> "", args |-> << >>,
    returncode |-> -1, launches |-> 0, opened |-> FALSE, read |-> NoFile,
    raised |-> NoOutcome, pending |-> NoOutcome, cleanups |-> 0,
    result |-> NoOutcome, outcome |-> NoOutcome ]

\* one caller, any interpreter, any content of $PATH, an empty temporary
\* directory
Init ==
  /\ py \in PyVersions
  /\ PATH \in [1..PathLen -> EntryKinds]
  /\ workspaces = << >>
  /\ files = {}
  /\ frame = [p \in {1} |-> InitFrame]

(* ------------------------- helpers of the code ------------------------ *)

\* ndashes * '-'
RECURSIVE Repeat(_, _)
Repeat(s, n) == IF n = 0 THEN "" ELSE s \o Repeat(s, n - 1)

\* commands.py:136-138, the loop over options.items()
RECURSIVE OptionArgs(_)
OptionArgs(options) ==
  IF options = << >> THEN << >>
  ELSE LET key == Head(options).key
           value == Head(options).value
           ndashes == IF Len(key) = 1 THEN 1 ELSE 2
       IN << Repeat("-", ndashes) \o key, Str(value) >> \o OptionArgs(Tail(options))

\* commands.py:124-129
FixedArgs(path, output_dir, output_path) ==
  << ASTROMETRY_COMMAND, PathStr(path),
     "--dir", output_dir,
     "--no-plots",
     "--new-fits", output_path,
     "--no-fits2fits",
     "--overwrite" >>

Args(path, output_dir, output_path, options) ==
  FixedArgs(path, output_dir, output_path) \o OptionArgs(options)

\* tempfile.mkdtemp(prefix = root + '_', suffix = '_astrometry.net')
MkdtempName(root, r) == "/tmp/" \o root \o "_" \o r \o "_astrometry.net"

\* tempfile.NamedTemporaryFile(prefix = '{0}_astrometry_'.format(root), suffix = ext)
TempFileName(root, r, ext) == "/tmp/" \o root \o "_astrometry_" \o r \o ext

\* the scan with os.path.exists(dir_) in place of
\* os.path.exists(os.path.join(dir_, ASTROMETRY_COMMAND))
InstalledAnyDirectory(entries) == \E i \in DOMAIN entries : TRUE

\* the decorator's scan of $PATH: os.path.exists(os.path.join(dir_, ASTROMETRY_COMMAND))
Installed(entries) == \E i \in DOMAIN entries : entries[i] # "none"

\* what subprocess.check_call needs to start the command: an executable
\* file of that name in a directory of $PATH
Executable(entries) == \E i \in DOMAIN entries : entries[i] = "exec"

\* isinstance(e, subprocess.CalledProcessError): AstrometryNetUnsolvedField
\* is a subclass of CalledProcessError
IsCalledProcessError(e) == e.kind \in {"CalledProcessError", "AstrometryNetUnsolvedField"}

\* isinstance(e, (IOError, AstrometryNetUnsolvedField)): IOError is OSError
\* in Python 3 and a different class in Python 2
IsIOErrorOrUnsolved(e, version) ==
  \/ e.kind \in {"IOError", "AstrometryNetUnsolvedField"}
  \/ version = 3 /\ e.kind = "OSError"

\* the except clauses of solve_field, commands.py:150-154
Handle(e, path, version) ==
  IF IsCalledProcessError(e) THEN e
  ELSE IF IsIOErrorOrUnsolved(e, version) THEN AstrometryNetUnsolvedField(PathStr(path))
  ELSE e

\* the with block of commands.py:144-146 on a <root>.solved file of this content
ReadSentinel(content, path) ==
  IF content = NoFile THEN IOError("open")
  ELSE IF Len(content) # 1 THEN TypeError("ord")
  ELSE IF content[1] # 1 THEN AstrometryNetUnsolvedField(PathStr(path))
  ELSE NoOutcome

\* the paths solve-field is told to write the new FITS file to
NewFitsTargets(args) ==
  { args[i + 1] : i \in { j \in 1..(Len(args) - 1) : args[j] = "--new-fits" } }

\* the options wrappers.solve builds, wrappers.py:99-121
SolveOptions(output_path, header) ==
  << [key |-> "no-plot", value |-> None],
     [key |-> "new-fits", value |-> Text(output_path)],
     [key |-> "no-fits2fits", value |-> None],
     [key |-> "overwrite", value |-> None] >>
  \o (IF header = "coords"
      THEN << [key |-> "ra", value |-> Text("10.5")],
              [key |-> "dec", value |-> Text("-3.25")],
              [key |-> "radius", value |-> IntVal(1)] >>
      ELSE << >>)

\* what the FITS header of the input gives wrappers.solve
Headers == {"coords", "keyerror", "unreadable"}

MkDir(d) == [x \in DOMAIN workspaces \cup {d} |-> IF x = d THEN NoFile ELSE workspaces[x]]
RmDir(d) == [x \in DOMAIN workspaces \ {d} |-> workspaces[x]]

\* caller p is invoking and stands at this position
At(p, pc) == p \in DOMAIN frame /\ frame[p].pc = pc

Set(p, f) == frame' = [frame EXCEPT ![p] = f]

\* solve_field leaves with res: to the caller, or back into wrappers.solve
Leave(f, res) ==
  IF f.via = "solve" /\ res.kind = "return"
  THEN [f EXCEPT !.result = res, !.pc = "s_rmtree"]
  ELSE [f EXCEPT !.result = res, !.outcome = res, !.pc = "done"]

(* ----------------------------- the callers ---------------------------- *)

\* a caller invokes commands.solve_field(path, **options)
CallSolveField(p) ==
  /\ At(p, "idle")
  /\ \E path \in Inputs, options \in DirectOptions :
       Set(p, [frame[p] EXCEPT !.via = "solve_field", !.path = path,
                                !.options = options, !.pc = "wrapped"])
  /\ UNCHANGED << py, PATH, workspaces, files >>

\* a caller invokes wrappers.solve(path)
CallSolve(p) ==
  /\ At(p, "idle")
  /\ \E path \in Inputs :
       Set(p, [frame[p] EXCEPT !.via = "solve", !.path = path, !.pc = "s_tmp"])
  /\ UNCHANGED << py, PATH, workspaces, files >>

(* --------------------------- wrappers.solve --------------------------- *)

\* wrappers.py:88-92: NamedTemporaryFile creates a file of a name not in use
SolveTmpCreate(p) ==
  /\ At(p, "s_tmp")
  /\ \E r \in Rnd :
       LET name == TempFileName(Root(frame[p].path), r, Ext(frame[p].path))
       IN /\ name \notin files
          /\ files' = files \cup {name}
          /\ Set(p, [frame[p] EXCEPT !.s_output_path = name, !.pc = "s_close"])
  /\ UNCHANGED << py, PATH, workspaces >>

\* wrappers.py:91: NamedTemporaryFile raises, the error leaves solve
SolveTmpFail(p) ==
  /\ At(p, "s_tmp")
  /\ Set(p, [frame[p] EXCEPT !.outcome = OSError("NamedTemporaryFile"), !.pc = "done"])
  /\ UNCHANGED << py, PATH, workspaces, files >>

\* wrappers.py:92-128: the with block closes (and deletes) the file, the
\* options are built from the FITS header, commands.solve_field is called
SolveBuildOptions(p) ==
  /\ At(p, "s_close")
  /\ files' = files \ {frame[p].s_output_path}
  /\ \E header \in Headers :
       IF header = "unreadable"
       THEN Set(p, [frame[p] EXCEPT !.outcome = IOError("fits.open"), !.pc = "done"])
       ELSE Set(p, [frame[p] EXCEPT
                      !.options = SolveOptions(frame[p].s_output_path, header),
                      !.pc = "wrapped"])
  /\ UNCHANGED << py, PATH, workspaces >>

\* wrappers.py:130-132: shutil.rmtree on what solve_field returned, then
\* return output_path. rmtree removes a directory and raises on anything else.
SolveRmtree(p) ==
  /\ At(p, "s_rmtree")
  /\ LET output_dir == frame[p].result.value
     IN IF output_dir \in DOMAIN workspaces
        THEN /\ workspaces' = RmDir(output_dir)
             /\ Set(p, [frame[p] EXCEPT !.outcome = Return(frame[p].s_output_path),
                                          !.pc = "done"])
        ELSE /\ workspaces' = workspaces
             /\ Set(p, [frame[p] EXCEPT !.outcome = OSError("solve.rmtree"),
                                          !.pc = "done"])
  /\ UNCHANGED << py, PATH, files >>

(* ----------------------- commands.solve_field ------------------------- *)

\* commands.py:59-61: the decorator finds solve-field in a directory of $PATH
WrappedFound(p) ==
  /\ At(p, "wrapped")
  /\ Installed(PATH)
  /\ Set(p, [frame[p] EXCEPT !.pc = "mkdtemp"])
  /\ UNCHANGED << py, PATH, workspaces, files >>

\* commands.py:63-66: it finds none, prints ASTROMETRY_MISSING and exits
WrappedMissing(p) ==
  /\ At(p, "wrapped")
  /\ ~ Installed(PATH)
  /\ Set(p, [frame[p] EXCEPT !.result = ToolNotInstalled,
                               !.outcome = ToolNotInstalled, !.pc = "done"])
  /\ UNCHANGED << py, PATH, workspaces, files >>

\* commands.py:102-106: mkdtemp creates a directory of a name not in use
Mkdtemp(p) ==
  /\ At(p, "mkdtemp")
  /\ \E r \in Rnd :
       LET name == MkdtempName(Root(frame[p].path), r)
       IN /\ name \notin DOMAIN workspaces
          /\ workspaces' = MkDir(name)
          /\ Set(p, [frame[p] EXCEPT !.output_dir = name, !.pc = "tmp"])
  /\ UNCHANGED << py, PATH, files >>

\* commands.py:106: mkdtemp raises, before the try statement
MkdtempFail(p) ==
  /\ At(p, "mkdtemp")
  /\ Set(p, Leave([frame[p] EXCEPT !.raised = OSError("mkdtemp")], OSError("mkdtemp")))
  /\ UNCHANGED << py, PATH, workspaces, files >>

\* commands.py:109-110: NamedTemporaryFile creates a file of a name not in use
TmpCreate(p) ==
  /\ At(p, "tmp")
  /\ \E r \in Rnd :
       LET name == TempFileName(Root(frame[p].path), r, Ext(frame[p].path))
       IN /\ name \notin files
          /\ files' = files \cup {name}
          /\ Set(p, [frame[p] EXCEPT !.output_path = name, !.pc = "close"])
  /\ UNCHANGED << py, PATH, workspaces >>

\* commands.py:110: NamedTemporaryFile raises, before the try statement:
\* no handler and no finally clause runs
TmpFail(p) ==
  /\ At(p, "tmp")
  /\ Set(p, Leave([frame[p] EXCEPT !.raised = OSError("NamedTemporaryFile")],
                  OSError("NamedTemporaryFile")))
  /\ UNCHANGED << py, PATH, workspaces, files >>

\* commands.py:110-138: the with block closes (and deletes) the file; the
\* argument list is built
TmpClose(p) ==
  /\ At(p, "close")
  /\ files' = files \ {frame[p].output_path}
  /\ Set(p, [frame[p] EXCEPT
               !.args = Args(frame[p].path, frame[p].output_dir,
                             frame[p].output_path, frame[p].options),
               !.pc = "call"])
  /\ UNCHANGED << py, PATH, workspaces >>

\* commands.py:141: check_call runs solve-field, which writes what it
\* writes and exits; a nonzero exit raises CalledProcessError
CheckCall(p) ==
  /\ At(p, "call")
  /\ Executable(PATH)
  /\ \E returncode \in ExitCodes, solved \in SentinelContents \cup {NoFile},
        written \in SUBSET NewFitsTargets(frame[p].args) :
       /\ workspaces' = [workspaces EXCEPT ![frame[p].output_dir] = solved]
       /\ files' = files \cup written
       /\ LET f == [frame[p] EXCEPT !.launches = @ + 1, !.returncode = returncode]
              e == CalledProcessError(returncode, f.args)
          IN IF returncode # 0
             THEN Set(p, [f EXCEPT !.raised = e,
                                   !.pending = Handle(e, f.path, py),
                                   !.pc = "finally"])
             ELSE Set(p, [f EXCEPT !.pc = "open"])
  /\ UNCHANGED << py, PATH >>

\* commands.py:141: the operating system cannot start solve-field
CheckCallFail(p) ==
  /\ At(p, "call")
  /\ ~ Executable(PATH)
  /\ Set(p, [frame[p] EXCEPT !.raised = OSError("check_call"),
                               !.pending = Handle(OSError("check_call"), frame[p].path, py),
                               !.pc = "finally"])
  /\ UNCHANGED << py, PATH, workspaces, files >>

\* commands.py:144-148: open and read <root>.solved, return output_path
OpenSolved(p) ==
  /\ At(p, "open")
  /\ LET content == workspaces[frame[p].output_dir]
         e == ReadSentinel(content, frame[p].path)
         f == [frame[p] EXCEPT !.opened = TRUE, !.read = content]
     IN IF e = NoOutcome
        THEN Set(p, [f EXCEPT !.pending = Return(f.output_path), !.pc = "finally"])
        ELSE Set(p, [f EXCEPT !.pending = Handle(e, f.path, py), !.pc = "finally"])
  /\ UNCHANGED << py, PATH, workspaces, files >>

\* commands.py:155-156: rmtree removes the working directory; what was
\* pending (the return value or the exception) leaves solve_field
Finally(p) ==
  /\ At(p, "finally")
  /\ workspaces' = RmDir(frame[p].output_dir)
  /\ Set(p, Leave([frame[p] EXCEPT !.cleanups = @ + 1], frame[p].pending))
  /\ UNCHANGED << py, PATH, files >>

\* commands.py:156: rmtree raises; its exception leaves solve_field
FinallyFail(p) ==
  /\ At(p, "finally")
  /\ Set(p, Leave([frame[p] EXCEPT !.cleanups = @ + 1], OSError("rmtree")))
  /\ UNCHANGED << py, PATH, workspaces, files >>

Next ==
  \E p \in Procs :
    \/ CallSolveField(p)
    \/ CallSolve(p)
    \/ SolveTmpCreate(p)
    \/ SolveTmpFail(p)
    \/ SolveBuildOptions(p)
    \/ SolveRmtree(p)
    \/ WrappedFound(p)
    \/ WrappedMissing(p)
    \/ Mkdtemp(p)
    \/ MkdtempFail(p)
    \/ TmpCreate(p)
    \/ TmpFail(p)
    \/ TmpClose(p)
    \/ CheckCall(p)
    \/ CheckCallFail(p)
    \/ OpenSolved(p)
    \/ Finally(p)
    \/ FinallyFail(p)

Spec == Init /\ [][Next]_vars

(* ------------------------ two concurrent callers ---------------------- *)

\* Two callers of solve_field on a machine where solve-field is installed
\* and executable.
InitPair ==
  /\ py \in PyVersions
  /\ PATH = [i \in 1..PathLen |-> "exec"]
  /\ workspaces = << >>
  /\ files = {}
  /\ frame = [p \in Procs |-> InitFrame]

\* The callers pass no options, and solve-field writes either nothing or a
\* one-byte <root>.solved file.
NextPair ==
  \E p \in Procs :
    \/ CallSolveField(p) /\ frame'[p].options = << >>
    \/ WrappedFound(p)
    \/ Mkdtemp(p)
    \/ TmpCreate(p)
    \/ TmpClose(p)
    \/ CheckCall(p) /\ workspaces'[frame[p].output_dir] \in {NoFile, << 1 >>}
    \/ OpenSolved(p)
    \/ Finally(p)
    \/ FinallyFail(p)

SpecPair == InitPair /\ [][NextPair]_vars

(* ------------------------------ the claims ---------------------------- *)

Callers == DOMAIN frame

\* solve_field has returned or raised for caller p
Left(p) == frame[p].result # NoOutcome

\* C1: once an invocation of solve_field that created its working
\* directory has returned or raised, that directory does not exist.
C1_WorkspaceRemovedOnEveryExit ==
  \A p \in Callers :
    (Left(p) /\ frame[p].output_dir # "") => frame[p].output_dir \notin DOMAIN workspaces

\* C2: when solve-field exits with a nonzero status, solve_field raises
\* CalledProcessError with that status and the whole argument list, and
\* has never opened <root>.solved.
C2_NonzeroExitIsProcessError ==
  \A p \in Callers :
    (Left(p) /\ frame[p].launches > 0 /\ frame[p].returncode # 0) =>
      /\ frame[p].result = [kind |-> "CalledProcessError",
                            returncode |-> frame[p].returncode,
                            cmd |-> frame[p].args]
      /\ ~ frame[p].opened

\* the <root>.solved file could be opened and its first byte is 1
FirstByteIsOne(content) == content # NoFile /\ Len(content) >= 1 /\ content[1] = 1

\* C3: when solve-field exits with status zero, the attempt is classified
\* as solved (output_path is to be returned) if <root>.solved opens and its
\* first byte is 1, whatever follows, and as unsolved (carrying the input
\* path) in every other case: no other error comes out of the reading.
C3_OutcomeFromFirstByte ==
  \A p \in Callers :
    (frame[p].opened /\ frame[p].returncode = 0 /\ frame[p].pending # NoOutcome) =>
      IF FirstByteIsOne(frame[p].read)
      THEN frame[p].pending = [kind |-> "return", value |-> frame[p].output_path]
      ELSE frame[p].pending = [kind |-> "AstrometryNetUnsolvedField",
                               path |-> PathStr(frame[p].path)]

\* no directory of $PATH holds an entry named solve-field
NothingOnPath == \A i \in 1..PathLen : PATH[i] = "none"

\* C4: when no directory of $PATH holds solve-field, solve_field never
\* starts the external process, creates neither the working directory nor
\* the output file, and leaves only with the "not installed" failure; the
\* external process is started only when the scan has found an entry.
C4_NotInstalledNeverLaunches ==
  \A p \in Callers :
    /\ NothingOnPath =>
         /\ frame[p].launches = 0
         /\ frame[p].output_dir = "" /\ frame[p].output_path = ""
         /\ frame[p].pc \notin {"mkdtemp", "tmp", "close", "call", "open", "finally", "s_rmtree"}
         /\ Left(p) => frame[p].result = [kind |-> "SystemExit", code |-> 1,
                                          printed |-> "ASTROMETRY_MISSING"]
    /\ frame[p].launches > 0 => ~ NothingOnPath

\* C4's case: nothing on $PATH and solve_field has left with the failure
C4_Witness ==
  \E p \in Callers :
    /\ NothingOnPath
    /\ frame[p].pc = "done"
    /\ frame[p].result.kind = "SystemExit"
    /\ frame[p].launches = 0

\* caller p is inside solve_field
Running(p) == frame[p].pc \in {"mkdtemp", "tmp", "close", "call", "open", "finally"}

\* C5: two callers inside solve_field at once hold different working
\* directories and different output paths.
C5_ConcurrentPathsDistinct ==
  \A p, q \in Callers :
    (p # q /\ Running(p) /\ Running(q)) =>
      /\ (frame[p].output_dir # "" /\ frame[q].output_dir # "")
            => frame[p].output_dir # frame[q].output_dir
      /\ (frame[p].output_path # "" /\ frame[q].output_path # "")
            => frame[p].output_path # frame[q].output_path

\* C6: the path solve_field returns names an existing file that is not a
\* working directory.
C6_ReturnedOutputExists ==
  \A p \in Callers :
    frame[p].result.kind = "return" =>
      /\ frame[p].result.value \in files
      /\ frame[p].result.value \notin DOMAIN workspaces
      /\ frame[p].result.value # frame[p].output_dir

\* the rendering of the option map C7 states: the flag, then the value's
\* string form when there is a value
RECURSIVE C7_Rendered(_)
C7_Rendered(options) ==
  IF options = << >> THEN << >>
  ELSE LET key == Head(options).key
           value == Head(options).value
           flag == (IF Len(key) = 1 THEN "-" ELSE "--") \o key
       IN (IF value.t = "none" THEN << flag >> ELSE << flag, Str(value) >>)
          \o C7_Rendered(Tail(options))

\* C7: the argument list is the fixed arguments followed, for every option,
\* by its flag (one dash for a one-character name, two otherwise) and, only
\* when the value is not None, the value's string form.
C7_OptionsRendered ==
  \A p \in Callers :
    frame[p].args # << >> =>
      frame[p].args =
        << "solve-field", PathStr(frame[p].path), "--dir", frame[p].output_dir,
           "--no-plots", "--new-fits", frame[p].output_path, "--no-fits2fits",
           "--overwrite" >> \o C7_Rendered(frame[p].options)

\* C8: when mkdtemp, NamedTemporaryFile or the start of the external
\* command raises an I/O error, what reaches the caller of solve_field is an
\* I/O error, not the unsolved outcome nor any other.
C8_IOErrorNotReclassified ==
  \A p \in Callers :
    (Left(p) /\ frame[p].raised.kind = "OSError") =>
      frame[p].result.kind \in {"OSError", "IOError"}

\* C9: solve_field leaves with the failure it was leaving with
\* (CalledProcessError or the unsolved outcome) also when the removal of
\* the working directory fails, and has attempted the removal exactly once.
C9_CleanupFailureKeepsPrimary ==
  \A p \in Callers :
    (Left(p) /\ frame[p].pending # NoOutcome) =>
      /\ frame[p].cleanups = 1
      /\ frame[p].pending.kind \in {"CalledProcessError", "AstrometryNetUnsolvedField"}
           => frame[p].result = frame[p].pending

\* C10: when the solve_field call made by wrappers.solve returns the path
\* of the solved file, solve returns a path, and the file of that path exists.
C10_SolveReturnsExistingFile ==
  \A p \in Callers :
    (frame[p].via = "solve" /\ frame[p].pc = "done" /\ frame[p].result.kind = "return") =>
      /\ frame[p].outcome.kind = "return"
      /\ frame[p].outcome.value \in files

=============================================================================
